---- MODULE Spec2Model ----
(***************************************************************************)
(* Weather history store of tps25-capstone: the CSV reconciliation done by *)
(* export_daily_weather_to_csv (src/weather_export.py) and the chart's     *)
(* load_weather_data (src/weather_chart.py), over the one file             *)
(* weather_export.csv.                                                     *)
(*                                                                         *)
(* The file is modelled at the level the csv module presents it: a header  *)
(* (sequence of column names) and data rows (sequences of text cells).     *)
(* Values held in memory keep their Python type (str, bool, int, float,    *)
(* None) until csv.DictWriter turns them into text.                        *)
(*                                                                         *)
(* Specifications: Spec (exports and chart loads), SpecSave (the save step *)
(* by step, with a reader), SpecDamaged (inputs that cannot be converted   *)
(* or read), SpecCase (names differing in letter case), SpecFetch (the     *)
(* three fetch functions), SpecGui (the window, its threads and its        *)
(* after() queue), SpecSearch (the searches alone, scheduled fairly),      *)
(* SpecSeed (the seeding script), SpecWriters (a seeding run and an export *)
(* interleaved), SpecClass (the 'predicted' texts as the export and the    *)
(* chart read them).                                                       *)
(***************************************************************************)
EXTENDS Integers, Sequences, FiniteSets, TLC

VARIABLES file, today, last, save, writers, api_key, log, gui, threads, queue

\* what the fetch functions read and leave behind, and the state of the
\* window
fetchVars == <<api_key, log>>
guiVars == <<gui, threads, queue>>

vars == <<file, today, last, save, writers, api_key, log, gui, threads, queue>>

(***************************************************************************)
(* Bounds of the model.                                                    *)
(***************************************************************************)
MaxDay == 2       \* the clock runs over days 1..MaxDay
MaxDaily == 2     \* daily entries in one weather response
MaxInitRows == 2  \* data rows of a file found on disk at start
MaxLog == 2       \* a fetch function is called while the log is shorter
MaxSearches == 2  \* searches started in one run of the window
MaxExports == 1   \* exports made in one run of the window

(***************************************************************************)
(* Python values.  One record shape for all of them, so that values of     *)
(* different types can be compared.  Floats are held in tenths (they only  *)
(* occur after round(x, 1)).                                               *)
(***************************************************************************)
PyStr(s) == [tag |-> "str", s |-> s, n |-> 0]
PyBool(b) == [tag |-> "bool", s |-> "", n |-> IF b THEN 1 ELSE 0]
PyInt(i) == [tag |-> "int", s |-> "", n |-> i]
PyFloat(tenths) == [tag |-> "float", s |-> "", n |-> tenths]
PyNone == [tag |-> "none", s |-> "", n |-> 0]

\* dict.get(k, default)
Get(d, k, default) == IF k \in DOMAIN d THEN d[k] ELSE default

\* str(v) as csv.writer applies it to a cell; None is written as the empty field
CellStr(v) ==
  CASE v.tag = "str" -> v.s
    [] v.tag = "bool" -> IF v.n = 1 THEN "True" ELSE "False"
    [] v.tag = "int" -> ToString(v.n)
    [] v.tag = "float" -> ToString(v.n \div 10) \o "." \o ToString(v.n % 10)
    [] v.tag = "none" -> ""

\* str(v) as an f-string applies it; None is formatted as "None"
FormatStr(v) == IF v.tag = "none" THEN "None" ELSE CellStr(v)

\* str.lower() on the texts a 'predicted' cell holds in this model
Lower(s) ==
  CASE s \in {"True", "TRUE", "true"} -> "true"
    [] s \in {"False", "FALSE", "false"} -> "false"
    [] s = "Yes" -> "yes"
    [] OTHER -> s

\* str.title() on the weather descriptions of this model
Title(s) ==
  CASE s = "clear sky" -> "Clear Sky"
    [] s = "" -> ""

(***************************************************************************)
(* Dates.  Day d is the calendar date 2024-01-1d; a timestamp counts the   *)
(* seconds from the start of day 0 in local time.  datetime.now() and      *)
(* date.today() of one call fall on the same day.                          *)
(***************************************************************************)
Days == 0..9

\* date.strftime("%Y-%m-%d")
StrfDate(d) == "2024-01-1" \o ToString(d)

\* datetime.strptime(s, "%Y-%m-%d").date()
StrpDate(s) == CHOOSE d \in Days : StrfDate(d) = s

\* datetime.fromtimestamp(ts), the date part
FromTimestamp(ts) == ts \div 86400

\* timestamp of noon of day d, as the API sends it for a daily entry
Noon(d) == d * 86400 + 43200

(***************************************************************************)
(* The CSV file.                                                           *)
(***************************************************************************)
fieldnames == <<"weather_date", "export_date", "city", "state", "temp",
                "humidity", "rain", "summary", "predicted">>

\* the state of the disk when weather_export.csv does not exist
NoFile == [exists |-> FALSE, header |-> <<>>, rows |-> <<>>]

RestKey == "<restkey>"

Range(s) == {s[i] : i \in 1..Len(s)}

\* one row of csv.DictReader: dict(zip(header, cells)); a short row is
\* padded with None, the surplus cells of a long row go under the rest key
DictRow(header, cells) ==
  [k \in Range(header) \cup (IF Len(cells) > Len(header) THEN {RestKey} ELSE {}) |->
     IF k = RestKey THEN PyStr("<list>")
     ELSE LET i == CHOOSE j \in 1..Len(header) : header[j] = k
          IN IF i <= Len(cells) THEN PyStr(cells[i]) ELSE PyNone]

\* list(csv.DictReader(csvfile)): blank lines are skipped
DictReader(f) ==
  LET data == SelectSeq(f.rows, LAMBDA cells : cells # <<>>)
  IN [i \in 1..Len(data) |-> DictRow(f.header, data[i])]

\* a field holding bytes that are not UTF-8: reading it raises
\* UnicodeDecodeError
Undecodable == "\\xff"

Decodes(f) ==
  /\ Undecodable \notin Range(f.header)
  /\ \A i \in 1..Len(f.rows) : Undecodable \notin Range(f.rows[i])

\* DictWriter.writerow: ValueError on a key outside fieldnames, a missing
\* key is written as the empty field
WriterRejects(row) == \E k \in DOMAIN row : k \notin Range(fieldnames)

WriteRow(row) == [i \in 1..Len(fieldnames) |-> CellStr(Get(row, fieldnames[i], PyStr("")))]

\* open(file_path, 'w'), writeheader(), writerow() for each row: the file is
\* truncated first, and a row the writer rejects ends the writing there
RECURSIVE GoodPrefix(_)
GoodPrefix(rows) ==
  IF rows = <<>> \/ WriterRejects(Head(rows)) THEN <<>>
  ELSE <<Head(rows)>> \o GoodPrefix(Tail(rows))

WriteCsv(all_data) ==
  LET written == GoodPrefix(all_data)
  IN [file |-> [exists |-> TRUE, header |-> fieldnames,
                rows |-> [i \in 1..Len(written) |-> WriteRow(written[i])]],
      ok |-> Len(written) = Len(all_data)]

(***************************************************************************)
(* export_daily_weather_to_csv                                             *)
(***************************************************************************)
\* round(x, 1) of a float given in hundredths, to tenths (ties to even)
Round1(h) ==
  LET q == h \div 10
      r == h % 10
  IN IF r > 5 \/ (r = 5 /\ q % 2 = 1) THEN q + 1 ELSE q

IsDict(v) == "tag" \notin DOMAIN v

\* lines 63-64: temp_info.get raises AttributeError when 'temp' is a number
\* and not a dict
BuildRaises(day_data) == "temp" \in DOMAIN day_data /\ ~IsDict(day_data["temp"])

\* lines 53-91: the csv row made from one daily entry
BuildRow(day_data, city_name, state, now) ==
  LET export_date == StrfDate(now)
      weather_timestamp == Get(day_data, "dt", 0)
      weather_date == IF weather_timestamp # 0
                      THEN StrfDate(FromTimestamp(weather_timestamp))
                      ELSE export_date
      is_predicted == StrpDate(weather_date) > now
      temp == IF "temp" \in DOMAIN day_data /\ "day" \in DOMAIN day_data["temp"]
              THEN PyFloat(Round1(day_data["temp"]["day"]))
              ELSE PyInt(0)
      humidity == Get(day_data, "humidity", PyInt(0))
      rain0 == Get(day_data, "rain", PyInt(0))
      rain == IF IsDict(rain0) THEN Get(rain0, "1h", PyInt(0)) ELSE rain0
      summary == IF "weather" \in DOMAIN day_data /\ day_data["weather"] # <<>>
                 THEN Title(Get(day_data["weather"][1], "description", ""))
                 ELSE ""
  IN [weather_date |-> PyStr(weather_date),
      export_date |-> PyStr(export_date),
      city |-> PyStr(city_name),
      state |-> PyStr(state),
      temp |-> temp,
      humidity |-> humidity,
      rain |-> rain,
      summary |-> PyStr(summary),
      predicted |-> PyBool(is_predicted)]

\* lines 95, 111, 123: f"{city}|{state}|{weather_date}"
LocationDateKey(row) ==
  FormatStr(Get(row, "city", PyStr(""))) \o "|" \o
  FormatStr(Get(row, "state", PyStr(""))) \o "|" \o
  FormatStr(Get(row, "weather_date", PyStr("")))

\* variant of ExistingPredicted without the backward-compatibility default
ExistingPredictedNoDefault(existing_row) ==
  Lower(Get(existing_row, "predicted", PyStr("")).s)

\* lines 104-108: the lower-cased 'predicted' text of an existing row, an
\* absent or empty one counting as 'false'
ExistingPredicted(existing_row) ==
  LET lowered == Lower(Get(existing_row, "predicted", PyStr("")).s)
  IN IF lowered = "" THEN "false" ELSE lowered

\* variant of PassesFilter with the comparison inverted
PassesFilterInverted(key, keys, existing_predicted) ==
  key \notin keys \/ existing_predicted # "false"

\* lines 116-117: the outer condition of the filter
PassesFilter(key, keys, existing_predicted) ==
  key \notin keys \/ existing_predicted = "false"

\* variant of SuppressesIncoming that compares with the text as written to
\* the file instead of the lower-cased one
SuppressesIncomingCapitalised(key, keys, existing_predicted) ==
  key \in keys /\ existing_predicted = "False"

\* lines 119-120: the inner condition, which removes the incoming rows
SuppressesIncoming(key, keys, existing_predicted) ==
  key \in keys /\ existing_predicted = "false"

\* variant of EnsurePredicted that sets the field without looking
EnsurePredictedAlways(existing_row) ==
  [k \in DOMAIN existing_row \cup {"predicted"} |->
     IF k = "predicted" THEN PyBool(FALSE) ELSE existing_row[k]]

\* lines 126-127: existing_row['predicted'] = False when the key is absent
EnsurePredicted(existing_row) ==
  IF "predicted" \in DOMAIN existing_row THEN existing_row
  ELSE [k \in DOMAIN existing_row \cup {"predicted"} |->
          IF k = "predicted" THEN PyBool(FALSE) ELSE existing_row[k]]

\* lines 98-130: the loop over the existing rows.  None.lower() raises.
RECURSIVE FilterExisting(_, _, _, _)
FilterExisting(existing_data, keys, csv_data, filtered) ==
  IF existing_data = <<>>
  THEN [raised |-> FALSE, csv_data |-> csv_data, filtered |-> filtered]
  ELSE LET existing_row == Head(existing_data)
           rest == Tail(existing_data)
       IN IF Get(existing_row, "predicted", PyStr("")).tag = "none"
          THEN [raised |-> TRUE, csv_data |-> csv_data, filtered |-> filtered]
          ELSE LET existing_predicted == ExistingPredicted(existing_row)
                   key == LocationDateKey(existing_row)
               IN IF PassesFilter(key, keys, existing_predicted)
                  THEN IF SuppressesIncoming(key, keys, existing_predicted)
                       THEN FilterExisting(rest, keys,
                              SelectSeq(csv_data, LAMBDA row : LocationDateKey(row) # key),
                              filtered)
                       ELSE FilterExisting(rest, keys, csv_data,
                              Append(filtered, EnsurePredicted(existing_row)))
                  ELSE FilterExisting(rest, keys, csv_data, filtered)

\* variant of AllData that writes back the kept rows only
AllDataKeptOnly(filtered_existing_data, csv_data) == filtered_existing_data

\* variant of AllData that puts the new rows in front of the kept rows
AllDataNewFirst(filtered_existing_data, csv_data) == csv_data \o filtered_existing_data

\* line 133: filtered_existing_data + csv_data
AllData(filtered_existing_data, csv_data) == filtered_existing_data \o csv_data

\* variant of ReadExisting that keeps the rows read before the failure
ReadExistingUpToFailure(f) ==
  IF f.exists
  THEN DictReader([f EXCEPT !.rows = SelectSeq(f.rows, LAMBDA cells :
                                        Undecodable \notin Range(cells))])
  ELSE <<>>

\* lines 37-47: the rows read from the file; none when it does not exist,
\* and none when reading it raises (existing_data is assigned only after
\* list(reader) has ended)
ReadExisting(f) == IF f.exists /\ Decodes(f) THEN DictReader(f) ELSE <<>>

\* lines 21-133: the incoming rows built, the existing rows read and
\* filtered, and the two put together; raised when building a row or the
\* filter loop raises
Reconcile(f, weather_data, coordinates, now) ==
  LET city_name == Get(coordinates, "name", "Unknown")
      state == Get(coordinates, "state", "")
      daily_data == weather_data["daily"]
      existing_data == ReadExisting(f)
      csv_data == [i \in 1..Len(daily_data) |->
                     BuildRow(daily_data[i], city_name, state, now)]
      keys == {LocationDateKey(csv_data[i]) : i \in 1..Len(csv_data)}
      merged == FilterExisting(existing_data, keys, csv_data, <<>>)
  IN [raised |-> (\E i \in 1..Len(daily_data) : BuildRaises(daily_data[i]))
                   \/ merged.raised,
      all_data |-> AllData(merged.filtered, merged.csv_data)]

\* variant of ExportResult that opens the file for writing before it builds
\* and filters the rows
ExportResultOpeningFirst(f, weather_data, coordinates, now) ==
  IF weather_data = <<>> \/ "daily" \notin DOMAIN weather_data
  THEN [file |-> f, outcome |-> "nodata"]
  ELSE LET merged == Reconcile(f, weather_data, coordinates, now)
           written == WriteCsv(merged.all_data)
       IN IF merged.raised
          THEN [file |-> [exists |-> TRUE, header |-> <<>>, rows |-> <<>>],
                outcome |-> "error"]
          ELSE [file |-> written.file,
                outcome |-> IF written.ok THEN "ok" ELSE "error"]

\* lines 15-161: the file after the call and how the call ended
\*   "nodata": the early return of lines 16-18, "ok": the success message,
\*   "error": the except branch of lines 160-161
ExportResult(f, weather_data, coordinates, now) ==
  IF weather_data = <<>> \/ "daily" \notin DOMAIN weather_data
  THEN [file |-> f, outcome |-> "nodata"]
  ELSE LET merged == Reconcile(f, weather_data, coordinates, now)
           written == WriteCsv(merged.all_data)
       IN IF merged.raised THEN [file |-> f, outcome |-> "error"]
          ELSE [file |-> written.file,
                outcome |-> IF written.ok THEN "ok" ELSE "error"]

(***************************************************************************)
(* load_weather_data of the chart                                          *)
(***************************************************************************)
\* variant of LowerName that leaves the letters as they are
LowerNameExact(s) == s

\* str.lower() on the city and state names of this model
LowerName(s) ==
  CASE s \in {"New York", "NEW YORK"} -> "new york"
    [] s = "Boston" -> "boston"
    [] s = "Massachusetts" -> "massachusetts"
    [] OTHER -> s

\* lines 28-33: row.get('city', '').lower() raises AttributeError on the
\* None of a short row; the state is looked at only when the city matches
MatchRaises(row, city) ==
  LET c == Get(row, "city", PyStr(""))
  IN \/ c = PyNone
     \/ /\ LowerName(c.s) = LowerName(city)
        /\ Get(row, "state", PyStr("")) = PyNone

\* lines 21-36: the rows of the file whose city and state match; none when
\* the file does not exist, and none when reading or matching raises
LoadWeatherData(f, city, state) ==
  IF ~f.exists \/ ~Decodes(f) THEN <<>>
  ELSE LET data == DictReader(f)
       IN IF \E i \in 1..Len(data) : MatchRaises(data[i], city) THEN <<>>
          ELSE SelectSeq(data, LAMBDA row :
                 /\ LowerName(Get(row, "city", PyStr("")).s) = LowerName(city)
                 /\ LowerName(Get(row, "state", PyStr("")).s) = LowerName(state))

(***************************************************************************)
(* Inputs.                                                                 *)
(***************************************************************************)
SeqsUpTo(S, n) == UNION {[1..k -> S] : k \in 0..n}

\* the daily entry of the weather response for day 2, with the rain given
\* as a dict holding the '1h' volume
DailyEntryDay2 ==
  [dt |-> Noon(2), temp |-> [day |-> 3804], humidity |-> PyInt(45),
   rain |-> [h1 \in {"1h"} |-> PyFloat(3)],
   weather |-> <<[description |-> "clear sky"]>>]

\* the daily entries a response may hold; <<>> is the entry {}, which has
\* no 'dt' and so is dated to the export date
DailyEntries == {DailyEntryDay2, <<>>}

\* weather_data: None, a response without 'daily', a response with 'daily'
WeatherInputs ==
  {<<>>, [current |-> "now"]} \cup
  {[current |-> "now", daily |-> b] : b \in SeqsUpTo(DailyEntries, MaxDaily)}

\* coordinates as the geocoder returns them
CoordinateInputs == {[name |-> "New York", state |-> "New York"]}

\* the header written by a version of the program without 'predicted'
LegacyHeader == SubSeq(fieldnames, 1, 8)

\* 'predicted' cells found in a file on disk
PredictedTexts == {"True", "False", ""}

InitCells(d) ==
  <<StrfDate(d), StrfDate(0), "New York", "New York", "39.5", "50", "0", "Clear Sky">>

\* data rows an earlier run left: at most MaxInitRows, one per day
InitRows(rowOf) ==
  {r \in SeqsUpTo({rowOf[d] : d \in DOMAIN rowOf}, MaxInitRows) :
     \A i, j \in 1..Len(r) : r[i][1] = r[j][1] => i = j}

\* what is on disk when the program starts: no file, an empty file, a file
\* written by the legacy version, or a file with the current header
InitFiles ==
  {NoFile, [exists |-> TRUE, header |-> <<>>, rows |-> <<>>]} \cup
  {[exists |-> TRUE, header |-> LegacyHeader, rows |-> r] :
     r \in InitRows([d \in 1..2 |-> InitCells(d)])} \cup
  {[exists |-> TRUE, header |-> fieldnames, rows |-> r] :
     r \in InitRows([x \in (1..2) \X PredictedTexts |-> Append(InitCells(x[1]), x[2])])}

(***************************************************************************)
(* State machine.  `last' records the most recent call: its inputs, the    *)
(* file it found and how it ended.                                         *)
(***************************************************************************)
NoCall ==
  [op |-> "none", before |-> NoFile, weather_data |-> <<>>, coordinates |-> <<>>,
   now |-> 0, outcome |-> "", loaded |-> <<>>]

\* the window as __init__ and setup_widgets leave it: nothing selected,
\* nothing stored, the export button disabled.  `shown' is the search whose
\* result is stored (0: none) and `latest' the latest search whose result
\* was ever stored; the program keeps neither
NoGui ==
  [selected_city_data |-> "", submit_button |-> "normal", export_button |-> "disabled",
   current_weather_data |-> <<>>, current_coordinates |-> <<>>, searches |-> 0,
   exports |-> 0, shown |-> 0, latest |-> 0]

\* the store on its own: no credential, no request, no search
StoreOnly ==
  /\ api_key = FALSE
  /\ log = <<>>
  /\ gui = NoGui
  /\ threads = {}
  /\ queue = <<>>

\* no seeding run and no export is between reading and writing the file
NoWriters ==
  [seed |-> [pc |-> "idle", seen |-> NoFile, csv_data |-> <<>>],
   export |-> [pc |-> "idle", seen |-> NoFile, weather_data |-> <<>>,
               coordinates |-> <<>>],
   order |-> <<>>]

\* no export is between its open() and the end of its with block
NoSave == [pc |-> "idle", call |-> NoCall, todo |-> <<>>, header |-> FALSE, rows |-> <<>>]

Init ==
  /\ file \in InitFiles
  /\ today = 1
  /\ last = NoCall
  /\ save = NoSave
  /\ writers = NoWriters
  /\ StoreOnly

\* a call of export_daily_weather_to_csv(weather_data, coordinates)
ExportCall(weather_data, coordinates) ==
  LET r == ExportResult(file, weather_data, coordinates, today)
  IN /\ file' = r.file
     /\ last' = [op |-> "export", before |-> file, weather_data |-> weather_data,
                 coordinates |-> coordinates, now |-> today,
                 outcome |-> r.outcome, loaded |-> <<>>]
     /\ UNCHANGED <<today, save, writers, fetchVars>>

ExportDailyWeatherToCsv ==
  /\ \E weather_data \in WeatherInputs, coordinates \in CoordinateInputs :
       ExportCall(weather_data, coordinates)
  /\ UNCHANGED guiVars

\* a call of load_weather_data(city, state) by the chart
ChartLoad ==
  \E coordinates \in CoordinateInputs :
    /\ last' = [op |-> "load", before |-> file, weather_data |-> <<>>,
                coordinates |-> coordinates, now |-> today, outcome |-> "ok",
                loaded |-> LoadWeatherData(file, coordinates.name, coordinates.state)]
    /\ UNCHANGED <<file, today, save, writers, fetchVars, guiVars>>

\* midnight passes
NextDay ==
  /\ today < MaxDay
  /\ today' = today + 1
  /\ UNCHANGED <<file, last, save, writers, fetchVars, guiVars>>

Next == ExportDailyWeatherToCsv \/ ChartLoad \/ NextDay

Spec == Init /\ [][Next]_vars

(***************************************************************************)
(* The save of lines 136-145 in its steps, with a reader in another        *)
(* process.  `file' is what is on disk; what the writer has written but    *)
(* the buffered text file has not yet passed on is held in `save'.         *)
(***************************************************************************)
\* open(file_path, 'w') of line 136: the file exists and is empty
Truncated == [exists |-> TRUE, header |-> <<>>, rows |-> <<>>]

\* the disk after the buffer is passed on (buffer full, or close)
Flushed(f, s) ==
  [exists |-> TRUE,
   header |-> IF s.header THEN fieldnames ELSE f.header,
   rows |-> f.rows \o s.rows]

\* a file with a column the program does not write, as a user's edit leaves
NotedHeader == Append(fieldnames, "note")

SaveInitFiles ==
  {NoFile,
   [exists |-> TRUE, header |-> fieldnames,
    rows |-> <<Append(InitCells(1), "False"), Append(InitCells(2), "True")>>],
   [exists |-> TRUE, header |-> NotedHeader,
    rows |-> <<Append(InitCells(1), "False") \o <<"checked">>,
               Append(InitCells(2), "True") \o <<"">> >>]}

SaveInit ==
  /\ file \in SaveInitFiles
  /\ today \in 1..MaxDay
  /\ last = NoCall
  /\ save = NoSave
  /\ writers = NoWriters
  /\ StoreOnly

\* lines 15-136: the call up to and including open(file_path, 'w')
SaveBegin ==
  /\ save.pc = "idle"
  /\ \E weather_data \in WeatherInputs, coordinates \in CoordinateInputs :
       LET call == [op |-> "export", before |-> file, weather_data |-> weather_data,
                    coordinates |-> coordinates, now |-> today,
                    outcome |-> "", loaded |-> <<>>]
       IN IF weather_data = <<>> \/ "daily" \notin DOMAIN weather_data
          THEN /\ last' = [call EXCEPT !.outcome = "nodata"]
               /\ UNCHANGED <<file, save, writers>>
          ELSE LET merged == Reconcile(file, weather_data, coordinates, today)
               IN IF merged.raised
                  THEN /\ last' = [call EXCEPT !.outcome = "error"]
                       /\ UNCHANGED <<file, save, writers>>
                  ELSE /\ file' = Truncated
                       /\ save' = [pc |-> "header", call |-> call,
                                   todo |-> merged.all_data,
                                   header |-> FALSE, rows |-> <<>>]
                       /\ last' = call
  /\ UNCHANGED <<today, writers, fetchVars, guiVars>>

\* line 142: writer.writeheader()
SaveWriteHeader ==
  /\ save.pc = "header"
  /\ save' = [save EXCEPT !.pc = "rows", !.header = TRUE]
  /\ UNCHANGED <<file, today, last, writers, fetchVars, guiVars>>

\* lines 144-145: writer.writerow(row); a rejected row raises inside the
\* with block, which closes the file and so passes the buffer on
SaveWriteRow ==
  /\ save.pc = "rows"
  /\ save.todo # <<>>
  /\ IF WriterRejects(Head(save.todo))
     THEN /\ file' = Flushed(file, save)
          /\ last' = [save.call EXCEPT !.outcome = "error"]
          /\ save' = NoSave
     ELSE /\ save' = [save EXCEPT !.todo = Tail(@),
                                  !.rows = Append(@, WriteRow(Head(save.todo)))]
          /\ UNCHANGED <<file, last>>
  /\ UNCHANGED <<today, writers, fetchVars, guiVars>>

\* the text file passes its buffer on when the buffer is full
SaveFlush ==
  /\ save.pc \in {"header", "rows"}
  /\ save.header \/ save.rows # <<>>
  /\ file' = Flushed(file, save)
  /\ save' = [save EXCEPT !.header = FALSE, !.rows = <<>>]
  /\ UNCHANGED <<today, last, writers, fetchVars, guiVars>>

\* the end of the with block of line 136, and the success message
SaveClose ==
  /\ save.pc = "rows"
  /\ save.todo = <<>>
  /\ file' = Flushed(file, save)
  /\ last' = [save.call EXCEPT !.outcome = "ok"]
  /\ save' = NoSave
  /\ UNCHANGED <<today, writers, fetchVars, guiVars>>

\* load_weather_data in another process, at any moment
ReaderLoad ==
  /\ \E coordinates \in CoordinateInputs :
       last' = [op |-> "load", before |-> file, weather_data |-> <<>>,
                coordinates |-> coordinates, now |-> today, outcome |-> "ok",
                loaded |-> LoadWeatherData(file, coordinates.name, coordinates.state)]
  /\ UNCHANGED <<file, today, save, writers, fetchVars, guiVars>>

SaveNext ==
  SaveBegin \/ SaveWriteHeader \/ SaveWriteRow \/ SaveFlush \/ SaveClose \/ ReaderLoad

SpecSave == SaveInit /\ [][SaveNext]_vars

(***************************************************************************)
(* Exports of batches with an entry that cannot be converted, onto files   *)
(* with rows that cannot be interpreted or bytes that cannot be read.      *)
(***************************************************************************)
\* a daily entry in the shape of the 'current' block: 'temp' is a number
DailyEntryFlatTemp == [temp |-> PyFloat(380)]

DamagedDailyEntries == DailyEntries \cup {DailyEntryFlatTemp}

DamagedWeatherInputs ==
  {<<>>, [current |-> "now"]} \cup
  {[current |-> "now", daily |-> b] : b \in SeqsUpTo(DamagedDailyEntries, MaxDaily)}

\* a line cut off after the city
ShortCells(d) == <<StrfDate(d), StrfDate(0), "New York">>

\* a row of another city whose summary holds bytes that are not UTF-8
UndecodableCells(d) ==
  <<StrfDate(d), StrfDate(0), "Boston", "Massachusetts", "39.5", "50", "0",
    Undecodable, "False">>

DamagedFiles ==
  {NoFile} \cup
  {[exists |-> TRUE, header |-> fieldnames, rows |-> r] :
     r \in {<<Append(InitCells(1), "False"), Append(InitCells(2), "True")>>,
            <<Append(InitCells(1), "True"), ShortCells(2)>>,
            <<ShortCells(1), Append(InitCells(2), "False")>>,
            <<Append(InitCells(1), "True"), UndecodableCells(1)>>,
            <<UndecodableCells(2), Append(InitCells(2), "False")>>}}

DamagedInit ==
  /\ file \in DamagedFiles
  /\ today = 1
  /\ last = NoCall
  /\ save = NoSave
  /\ writers = NoWriters
  /\ StoreOnly

ExportDamaged ==
  /\ \E weather_data \in DamagedWeatherInputs, coordinates \in CoordinateInputs :
       ExportCall(weather_data, coordinates)
  /\ UNCHANGED guiVars

DamagedNext == ExportDamaged \/ ChartLoad

SpecDamaged == DamagedInit /\ [][DamagedNext]_vars

(***************************************************************************)
(* Exports and chart loads for names that differ in letter case only.      *)
(***************************************************************************)
CaseNames == {"New York", "new york", "NEW YORK"}

CaseCoordinateInputs == {[name |-> n, state |-> n] : n \in {"New York", "new york"}}

\* a row of an earlier run, its city and state spelled n
CaseCells(d, n, predicted) ==
  <<StrfDate(d), StrfDate(0), n, n, "39.5", "50", "0", "Clear Sky", predicted>>

CaseFiles ==
  {NoFile} \cup
  {[exists |-> TRUE, header |-> fieldnames, rows |-> <<CaseCells(d, n, p)>>] :
     d \in 1..2, n \in {"new york", "NEW YORK"}, p \in {"True", "False"}}

CaseInit ==
  /\ file \in CaseFiles
  /\ today = 1
  /\ last = NoCall
  /\ save = NoSave
  /\ writers = NoWriters
  /\ StoreOnly

\* responses holding an entry without 'dt', an entry of day 2, or both
CaseWeatherInputs ==
  {[current |-> "now", daily |-> b] :
     b \in {<<(<<>>)>>, <<DailyEntryDay2>>, <<(<<>>), DailyEntryDay2>>}}

ExportCase ==
  /\ \E weather_data \in CaseWeatherInputs, coordinates \in CaseCoordinateInputs :
       ExportCall(weather_data, coordinates)
  /\ UNCHANGED guiVars

\* load_weather_data(city, state) for a name in either spelling
ChartLoadCase ==
  \E coordinates \in CaseCoordinateInputs :
    /\ last' = [op |-> "load", before |-> file, weather_data |-> <<>>,
                coordinates |-> coordinates, now |-> today, outcome |-> "ok",
                loaded |-> LoadWeatherData(file, coordinates.name, coordinates.state)]
    /\ UNCHANGED <<file, today, save, writers, fetchVars, guiVars>>

CaseNext == ExportCase \/ ChartLoadCase

SpecCase == CaseInit /\ [][CaseNext]_vars

(***************************************************************************)
(* create_temperature_chart: the points the chart plots.  It reads the     *)
(* 'predicted' text of a stored row with a test of its own, and the export *)
(* reads it with another.                                                  *)
(***************************************************************************)
\* float() of the temperature texts found in the files of this model, in
\* tenths of a degree; -1 stands for the ValueError of any other text
Float(s) ==
  CASE s = "39.5" -> 395
    [] s = "38.0" -> 380
    [] OTHER -> -1

\* weather_chart.py lines 55-65: the point of a row, "skipped" for a row
\* that raises ValueError or KeyError, "raised" for one that raises
\* another exception: strptime of None (TypeError), None.lower()
\* (AttributeError)
ChartPoint(row) ==
  LET skipped == [kind |-> "skipped", date |-> 0, temp |-> 0, predicted |-> FALSE]
      raised == [kind |-> "raised", date |-> 0, temp |-> 0, predicted |-> FALSE]
  IN IF "weather_date" \notin DOMAIN row THEN skipped
     ELSE IF row["weather_date"] = PyNone THEN raised
     ELSE IF ~ \E d \in Days : StrfDate(d) = row["weather_date"].s THEN skipped
     ELSE IF "temp" \notin DOMAIN row THEN skipped
     ELSE IF row["temp"].s # "" /\ Float(row["temp"].s) < 0 THEN skipped
     ELSE IF "predicted" \notin DOMAIN row THEN skipped
     ELSE IF row["predicted"] = PyNone THEN raised
     ELSE [kind |-> "point",
           date |-> StrpDate(row["weather_date"].s),
           temp |-> IF row["temp"].s = "" THEN 0 ELSE Float(row["temp"].s),
           predicted |-> Lower(row["predicted"].s) = "true"]

\* the order of sorted() on (date, temp, predicted) tuples
PointBefore(p, q) ==
  \/ p.date < q.date
  \/ p.date = q.date /\ p.temp < q.temp
  \/ p.date = q.date /\ p.temp = q.temp /\ ~p.predicted /\ q.predicted

RECURSIVE SortPoints(_)
SortPoints(points) ==
  IF points = <<>> THEN <<>>
  ELSE LET i == CHOOSE i \in 1..Len(points) :
                  \A j \in 1..Len(points) :
                    PointBefore(points[j], points[i]) => FALSE
           rest == [k \in 1..(Len(points) - 1) |->
                      IF k < i THEN points[k] ELSE points[k + 1]]
       IN <<points[i]>> \o SortPoints(rest)

\* weather_chart.py lines 38-85: what create_temperature_chart plots
\*   "nodata": the message of lines 45-47, "novalid": that of lines 67-69,
\*   "raised": an exception leaves the function, "shown": the chart window
ChartPoints(f) ==
  LET weather_data == LoadWeatherData(f, "New York", "New York")
      points == [i \in 1..Len(weather_data) |-> ChartPoint(weather_data[i])]
      valid == SelectSeq(points, LAMBDA p : p.kind = "point")
  IN IF weather_data = <<>> THEN [outcome |-> "nodata", points |-> <<>>]
     ELSE IF \E i \in 1..Len(points) : points[i].kind = "raised"
     THEN [outcome |-> "raised", points |-> <<>>]
     ELSE IF valid = <<>> THEN [outcome |-> "novalid", points |-> <<>>]
     ELSE [outcome |-> "shown", points |-> SortPoints(valid)]

\* 'predicted' texts a file may hold: True and False in three spellings,
\* nothing, and another word
ClassTexts == {"True", "TRUE", "true", "False", "FALSE", "false", "", "Yes"}

\* files with a row of New York for day 2, alone or after a row of day 1,
\* with each of the texts or written without the column
ClassFiles ==
  {NoFile} \cup
  {[exists |-> TRUE, header |-> fieldnames, rows |-> r \o <<Append(InitCells(2), p)>>] :
     p \in ClassTexts,
     r \in {<<>>, <<Append(InitCells(1), "False")>>, <<Append(InitCells(1), "True")>>}} \cup
  {[exists |-> TRUE, header |-> LegacyHeader, rows |-> r \o <<InitCells(2)>>] :
     r \in {<<>>, <<InitCells(1)>>}}

ClassInit ==
  /\ file \in ClassFiles
  /\ today = 1
  /\ last = NoCall
  /\ save = NoSave
  /\ writers = NoWriters
  /\ StoreOnly

\* an export of a forecast for New York: day 2, or days 1 and 2
ExportClass ==
  /\ \E b \in {<<DailyEntryDay2>>, <<[DailyEntryDay2 EXCEPT !.dt = Noon(1)], DailyEntryDay2>>},
        coordinates \in CoordinateInputs :
       ExportCall([current |-> "now", daily |-> b], coordinates)
  /\ UNCHANGED guiVars

\* create_temperature_chart(); `loaded' holds the points plotted
CreateTemperatureChart ==
  LET r == ChartPoints(file)
  IN /\ last' = [op |-> "chart", before |-> file, weather_data |-> <<>>,
                 coordinates |-> <<>>, now |-> today, outcome |-> r.outcome,
                 loaded |-> r.points]
     /\ UNCHANGED <<file, today, save, writers, fetchVars, guiVars>>

ClassNext == ExportClass \/ CreateTemperatureChart

SpecClass == ClassInit /\ [][ClassNext]_vars

(***************************************************************************)
(* The fetch functions.  What the server answers is the environment's      *)
(* choice; `log' holds, in order, the HTTP requests issued and the lines   *)
(* printed.                                                                *)
(***************************************************************************)
Cities == {"New York", "Boston"}

\* what the geocoding API returns for a city of the list
Coordinates(city_name) ==
  CASE city_name = "New York" ->
         [name |-> "New York", state |-> "New York", lat |-> 407, country |-> "US"]
    [] city_name = "Boston" ->
         [name |-> "Boston", state |-> "Massachusetts", lat |-> 424, country |-> "US"]

\* the answers of the geocoding API: a list with a match, an empty list, a
\* failed request (connection error or error status), a JSON object where
\* a list is expected
GeoReplies == {"found", "empty", "failed", "object"}

\* the answers of the One Call API: current and daily blocks, the current
\* block alone, a failed request
WeatherReplies == {"full", "nodaily", "failed"}

\* the answers of the Time Machine API: one data point, an empty 'data'
\* list, a failed request
HistoryReplies == {"data", "empty", "failed"}

Requested(api, q) == [kind |-> "request", api |-> api, text |-> q, by |-> 0]

Said(text) == [kind |-> "print", api |-> "", text |-> text, by |-> 0]

KeyMissing == "Error: OPENWEATHERMAP_KEY1 not found in environment variables"

\* variant of GetWeatherData that does not look for the credential
GetWeatherDataUnchecked(key, lat, reply, now) ==
  [log |-> <<Requested("onecall", ToString(lat))>>, raised |-> FALSE, result |-> <<>>]

\* fetch_coordinates.py lines 9-74: get_city_coordinates
GetCityCoordinates(key, city_name, reply) ==
  IF ~key
  THEN [log |-> <<Said(KeyMissing)>>, raised |-> FALSE, result |-> <<>>]
  ELSE CASE reply = "found" ->
              [log |-> <<Requested("geo", city_name)>>, raised |-> FALSE,
               result |-> Coordinates(city_name)]
         [] reply = "empty" ->
              [log |-> <<Requested("geo", city_name), Said("No coordinates found")>>,
               raised |-> FALSE, result |-> <<>>]
         [] reply = "failed" ->
              [log |-> <<Requested("geo", city_name), Said("Error making API request")>>,
               raised |-> FALSE, result |-> <<>>]
         [] reply = "object" ->
              [log |-> <<Requested("geo", city_name)>>, raised |-> TRUE, result |-> <<>>]

\* the daily entry of a weather response for day d
DailyEntryFor(d) == [DailyEntryDay2 EXCEPT !.dt = Noon(d)]

\* fetch_weather.py lines 10-59: get_weather_data, called on day `now'
GetWeatherData(key, lat, reply, now) ==
  IF ~key
  THEN [log |-> <<Said(KeyMissing)>>, raised |-> FALSE, result |-> <<>>]
  ELSE CASE reply = "full" ->
              [log |-> <<Requested("onecall", ToString(lat))>>, raised |-> FALSE,
               result |-> [lat |-> lat, current |-> [dt |-> Noon(now)],
                           daily |-> <<DailyEntryFor(now), DailyEntryFor(now + 1)>>]]
         [] reply = "nodaily" ->
              [log |-> <<Requested("onecall", ToString(lat))>>, raised |-> FALSE,
               result |-> [lat |-> lat, current |-> [dt |-> Noon(now)]]]
         [] reply = "failed" ->
              [log |-> <<Requested("onecall", ToString(lat)),
                         Said("Error making API request")>>,
               raised |-> FALSE, result |-> <<>>]

\* seed_weather_data.py lines 11-53: get_historical_weather_data
GetHistoricalWeatherData(key, lat, dt, reply) ==
  IF ~key
  THEN [log |-> <<Said(KeyMissing)>>, raised |-> FALSE, result |-> <<>>]
  ELSE CASE reply = "data" ->
              [log |-> <<Requested("timemachine", ToString(lat))>>, raised |-> FALSE,
               result |-> [lat |-> lat, data |-> <<[dt |-> dt, temp |-> 3804]>>]]
         [] reply = "empty" ->
              [log |-> <<Requested("timemachine", ToString(lat))>>, raised |-> FALSE,
               result |-> [lat |-> lat, data |-> <<>>]]
         [] reply = "failed" ->
              [log |-> <<Requested("timemachine", ToString(lat)),
                         Said("Error making API request")>>,
               raised |-> FALSE, result |-> <<>>]

\* how a call ended, from what it returned
Returned(r) ==
  IF r.raised THEN "raised" ELSE IF r.result = <<>> THEN "None" ELSE "value"

FetchInit ==
  /\ api_key \in BOOLEAN
  /\ log = <<>>
  /\ file = NoFile
  /\ today = 1
  /\ last = NoCall
  /\ save = NoSave
  /\ writers = NoWriters
  /\ gui = NoGui
  /\ threads = {}
  /\ queue = <<>>

CallGetCityCoordinates ==
  /\ Len(log) < MaxLog
  /\ \E city_name \in Cities, reply \in GeoReplies :
       LET r == GetCityCoordinates(api_key, city_name, reply)
       IN /\ log' = log \o r.log
          /\ last' = [NoCall EXCEPT !.op = "get_city_coordinates", !.now = today,
                                    !.coordinates = r.result, !.outcome = Returned(r)]
  /\ UNCHANGED <<file, today, save, writers, api_key, guiVars>>

CallGetWeatherData ==
  /\ Len(log) < MaxLog
  /\ \E city_name \in Cities, reply \in WeatherReplies :
       LET r == GetWeatherData(api_key, Coordinates(city_name).lat, reply, today)
       IN /\ log' = log \o r.log
          /\ last' = [NoCall EXCEPT !.op = "get_weather_data", !.now = today,
                                    !.weather_data = r.result, !.outcome = Returned(r)]
  /\ UNCHANGED <<file, today, save, writers, api_key, guiVars>>

CallGetHistoricalWeatherData ==
  /\ Len(log) < MaxLog
  /\ \E city_name \in Cities, reply \in HistoryReplies :
       LET r == GetHistoricalWeatherData(api_key, Coordinates(city_name).lat,
                                         Noon(today - 1), reply)
       IN /\ log' = log \o r.log
          /\ last' = [NoCall EXCEPT !.op = "get_historical_weather_data", !.now = today,
                                    !.weather_data = r.result, !.outcome = Returned(r)]
  /\ UNCHANGED <<file, today, save, writers, api_key, guiVars>>

FetchNext ==
  CallGetCityCoordinates \/ CallGetWeatherData \/ CallGetHistoricalWeatherData

SpecFetch == FetchInit /\ [][FetchNext]_vars

(***************************************************************************)
(* seed_weather_data (seed_weather_data.py): the last SeedDays days before *)
(* today are fetched for New York and merged into the file.                *)
(***************************************************************************)
\* line 81: range(1, 8)
SeedDays == 7

\* line 84: the timestamp of the start of day d
StartOfDay(d) == d * 86400

\* lines 104-132: the csv row made from the data point of one day
SeedRow(day_data, date, city_name, state, now) ==
  LET temp == Get(day_data, "temp", 0)
      summary == IF "weather" \in DOMAIN day_data /\ day_data["weather"] # <<>>
                 THEN Title(Get(day_data["weather"][1], "description", ""))
                 ELSE ""
  IN [weather_date |-> PyStr(StrfDate(date)),
      export_date |-> PyStr(StrfDate(now)),
      city |-> PyStr(city_name),
      state |-> PyStr(state),
      temp |-> IF temp # 0 THEN PyFloat(Round1(temp)) ELSE PyStr(""),
      humidity |-> Get(day_data, "humidity", PyInt(0)),
      rain |-> PyInt(0),
      summary |-> PyStr(summary),
      predicted |-> PyBool(FALSE)]

RECURSIVE Concat(_)
Concat(seqs) == IF seqs = <<>> THEN <<>> ELSE Head(seqs) \o Concat(Tail(seqs))

\* line 99: the answer gives a row
HasData(weather_data) ==
  weather_data # <<>> /\ "data" \in DOMAIN weather_data /\ weather_data["data"] # <<>>

\* variant of SeedFetch that gives up at the first day without data
SeedFetchUntilFailure(key, coordinates, replies, now) ==
  LET fetched == [i \in 1..SeedDays |->
                    GetHistoricalWeatherData(key, coordinates["lat"],
                                             StartOfDay(now - i), replies[i])]
      bad == {i \in 1..SeedDays : ~HasData(fetched[i].result)}
      stop == IF bad = {} THEN SeedDays
              ELSE CHOOSE i \in bad : \A j \in bad : i <= j
      good == SelectSeq([i \in 1..SeedDays |-> i], LAMBDA i : i < stop)
  IN [log |-> Concat([i \in 1..stop |-> fetched[i].log]),
      csv_data |-> [k \in 1..Len(good) |->
                      SeedRow(fetched[good[k]].result["data"][1], now - good[k],
                              coordinates["name"], Get(coordinates, "state", "NY"),
                              now)]]

\* lines 77-135: one call of get_historical_weather_data for each of the
\* days, most recent first; a day without data is passed over
SeedFetch(key, coordinates, replies, now) ==
  LET fetched == [i \in 1..SeedDays |->
                    GetHistoricalWeatherData(key, coordinates["lat"],
                                             StartOfDay(now - i), replies[i])]
      good == SelectSeq([i \in 1..SeedDays |-> i],
                        LAMBDA i : HasData(fetched[i].result))
  IN [log |-> Concat([i \in 1..SeedDays |-> fetched[i].log]),
      csv_data |-> [k \in 1..Len(good) |->
                      SeedRow(fetched[good[k]].result["data"][1], now - good[k],
                              coordinates["name"], Get(coordinates, "state", "NY"),
                              now)]]

\* variant of SeedKeeps that keeps an actual row of a seeded key
SeedKeepsActual(existing_row, keys) ==
  LocationDateKey(existing_row) \notin keys
    \/ Lower(Get(existing_row, "predicted", PyStr("")).s) = "false"

\* line 173: an existing row is kept when its key is not one being added
SeedKeeps(existing_row, keys) == LocationDateKey(existing_row) \notin keys

\* lines 158-182: the rows read, without those of a seeded key, then the
\* seeded rows
SeedReconcile(existing_data, csv_data) ==
  LET keys == {LocationDateKey(csv_data[i]) : i \in 1..Len(csv_data)}
      kept == SelectSeq(existing_data, LAMBDA existing_row :
                                         SeedKeeps(existing_row, keys))
  IN [i \in 1..Len(kept) |-> EnsurePredicted(kept[i])] \o csv_data

\* lines 55-201: the file after the run, what the run printed and requested,
\* and how it ended
\*   "raised": the geocoder raised, "nocoordinates": the return of line 68,
\*   "nodata": the return of line 139, "ok": the success message,
\*   "error": the except branch of lines 200-201
SeedResult(f, key, geo_reply, replies, now) ==
  LET g == GetCityCoordinates(key, "New York", geo_reply)
  IN IF g.raised THEN [file |-> f, log |-> g.log, outcome |-> "raised"]
     ELSE IF g.result = <<>>
     THEN [file |-> f, log |-> g.log, outcome |-> "nocoordinates"]
     ELSE LET fetched == SeedFetch(key, g.result, replies, now)
              written == WriteCsv(SeedReconcile(ReadExisting(f), fetched.csv_data))
          IN IF fetched.csv_data = <<>>
             THEN [file |-> f, log |-> g.log \o fetched.log, outcome |-> "nodata"]
             ELSE [file |-> written.file, log |-> g.log \o fetched.log,
                   outcome |-> IF written.ok THEN "ok" ELSE "error"]

\* the answers for the seven days: one for yesterday, one for the six days
\* before that
SeedReplyInputs ==
  {[i \in 1..SeedDays |-> IF i = 1 THEN a ELSE b] :
     a \in HistoryReplies, b \in HistoryReplies}

SeedCells(d, city, state, predicted) ==
  <<StrfDate(d), StrfDate(5), city, state, "39.5", "50", "0", "Clear Sky", predicted>>

\* files found on day 8, with rows of yesterday and the day before, of
\* tomorrow, of another city, and one written without the 'predicted' column
SeedFiles ==
  {NoFile} \cup
  {[exists |-> TRUE, header |-> fieldnames, rows |-> r] :
     r \in {<<SeedCells(7, "New York", "New York", "True"),
              SeedCells(9, "New York", "New York", "True")>>,
            <<SeedCells(9, "New York", "New York", "True"),
              SeedCells(7, "New York", "New York", "False"),
              SeedCells(7, "Boston", "Massachusetts", "False")>>,
            <<SeedCells(7, "Boston", "Massachusetts", "False"),
              SeedCells(6, "New York", "New York", "False"),
              SeedCells(7, "New York", "New York", "True"),
              SeedCells(9, "New York", "New York", "True")>>}} \cup
  {[exists |-> TRUE, header |-> LegacyHeader,
    rows |-> <<SubSeq(SeedCells(9, "New York", "New York", ""), 1, 8),
               SubSeq(SeedCells(7, "New York", "New York", ""), 1, 8)>>]}

SeedInit ==
  /\ file \in SeedFiles
  /\ today = 8
  /\ last = NoCall
  /\ save = NoSave
  /\ writers = NoWriters
  /\ api_key \in BOOLEAN
  /\ log = <<>>
  /\ gui = NoGui
  /\ threads = {}
  /\ queue = <<>>

\* one run of the seeding script; `log' is the output of the latest run
SeedWeatherData ==
  /\ \E geo_reply \in GeoReplies, replies \in SeedReplyInputs :
       LET r == SeedResult(file, api_key, geo_reply, replies, today)
       IN /\ file' = r.file
          /\ log' = r.log
          /\ last' = [op |-> "seed", before |-> file, weather_data |-> replies,
                      coordinates |-> geo_reply, now |-> today,
                      outcome |-> r.outcome, loaded |-> <<>>]
  /\ UNCHANGED <<today, save, writers, api_key, guiVars>>

SeedNext == SeedWeatherData \/ ChartLoad

SpecSeed == SeedInit /\ [][SeedNext]_vars

(***************************************************************************)
(* A seeding run and an export of the window at the same time.  The        *)
(* seeding script runs in a process of its own, and neither it nor the     *)
(* export locks weather_export.csv: each reads the file, computes the rows *)
(* to write, and opens the file for writing later.  `writers' holds what   *)
(* each has read and fetched, and `order' the reads and writes so far.     *)
(***************************************************************************)
\* what the window exports: the forecast of a search made yesterday or
\* today, for either city
WriterExports ==
  {[weather_data |-> GetWeatherData(TRUE, Coordinates(c).lat, "full", d).result,
    coordinates |-> Coordinates(c)] : c \in {"New York", "Boston"}, d \in {7, 8}}

\* files found on day 8: none, and one with a forecast for tomorrow, an
\* actual row of yesterday and a row of another city
WriterFiles ==
  {NoFile,
   [exists |-> TRUE, header |-> fieldnames,
    rows |-> <<SeedCells(9, "New York", "New York", "True"),
               SeedCells(7, "New York", "New York", "False"),
               SeedCells(7, "Boston", "Massachusetts", "False")>>]}

WritersInit ==
  /\ file \in WriterFiles
  /\ today = 8
  /\ last = NoCall
  /\ save = NoSave
  /\ writers = NoWriters
  /\ api_key = TRUE
  /\ log = <<>>
  /\ gui = NoGui
  /\ threads = {}
  /\ queue = <<>>

\* variant of SeedWritten that reads the file again when it writes
SeedWrittenLocked(seen, current, csv_data) ==
  WriteCsv(SeedReconcile(ReadExisting(current), csv_data))

\* seed_weather_data.py lines 158-194: the file the seeding run writes is
\* computed from the rows it read, whatever the file holds by now
SeedWritten(seen, current, csv_data) ==
  WriteCsv(SeedReconcile(ReadExisting(seen), csv_data))

\* weather_export.py lines 49-145: the same for the export
ExportWritten(seen, current, weather_data, coordinates, now) ==
  ExportResult(seen, weather_data, coordinates, now)

\* seed_weather_data.py lines 55-139: geocoding and the seven requests; the
\* run ends here when it has no coordinates or no rows
SeederFetch ==
  /\ writers.seed.pc = "idle"
  /\ \E geo_reply \in GeoReplies, replies \in SeedReplyInputs :
       LET g == GetCityCoordinates(api_key, "New York", geo_reply)
           fetched == IF g.raised \/ g.result = <<>>
                      THEN [log |-> <<>>, csv_data |-> <<>>]
                      ELSE SeedFetch(api_key, g.result, replies, today)
       IN /\ writers' = [writers EXCEPT
                           !.seed.pc = IF fetched.csv_data = <<>>
                                       THEN "done" ELSE "fetched",
                           !.seed.csv_data = fetched.csv_data]
          /\ log' = g.log \o fetched.log
  /\ UNCHANGED <<file, today, last, save, api_key, guiVars>>

\* seed_weather_data.py lines 144-156: the rows on disk are read
SeederRead ==
  /\ writers.seed.pc = "fetched"
  /\ writers' = [writers EXCEPT !.seed.pc = "read", !.seed.seen = file,
                                !.order = Append(@, "seed read")]
  /\ UNCHANGED <<file, today, last, save, fetchVars, guiVars>>

\* seed_weather_data.py lines 158-194: the file is written
SeederWrite ==
  /\ writers.seed.pc = "read"
  /\ LET written == SeedWritten(writers.seed.seen, file, writers.seed.csv_data)
     IN /\ file' = written.file
        /\ writers' = [writers EXCEPT !.seed.pc = "done",
                                      !.order = Append(@, "seed write")]
  /\ UNCHANGED <<today, last, save, fetchVars, guiVars>>

\* weather_export.py lines 15-47: the export of the window reads the rows
\* on disk
ExporterRead ==
  /\ writers.export.pc = "idle"
  /\ \E e \in WriterExports :
       writers' = [writers EXCEPT
                     !.export = [pc |-> "read", seen |-> file,
                                 weather_data |-> e.weather_data,
                                 coordinates |-> e.coordinates],
                     !.order = Append(@, "export read")]
  /\ UNCHANGED <<file, today, last, save, fetchVars, guiVars>>

\* weather_export.py lines 49-145: the rows are built and the file written
ExporterWrite ==
  /\ writers.export.pc = "read"
  /\ LET r == ExportWritten(writers.export.seen, file, writers.export.weather_data,
                            writers.export.coordinates, today)
     IN /\ file' = r.file
        /\ writers' = [writers EXCEPT !.export.pc = "done",
                                      !.order = Append(@, "export write")]
  /\ UNCHANGED <<today, last, save, fetchVars, guiVars>>

WritersNext ==
  SeederFetch \/ SeederRead \/ SeederWrite \/ ExporterRead \/ ExporterWrite

SpecWriters == WritersInit /\ [][WritersNext]_vars

(***************************************************************************)
(* The window (weather_gui.py).  Handlers and after() callbacks run on the *)
(* UI thread, one at a time; `queue' holds the callbacks scheduled with    *)
(* root.after(0, ...), in order; `threads' holds the background threads    *)
(* that were started and have not yet run.  A search is numbered by the    *)
(* submit that started it.                                                 *)
(***************************************************************************)
\* variant of Callback that hands the weather result over without the
\* coordinates it was fetched for
CallbackWithoutCoordinates(fn, search, coordinates, weather_data) ==
  [fn |-> fn, search |-> search,
   coordinates |-> IF fn = "display_weather_result" THEN <<>> ELSE coordinates,
   weather_data |-> weather_data]

Callback(fn, search, coordinates, weather_data) ==
  [fn |-> fn, search |-> search, coordinates |-> coordinates,
   weather_data |-> weather_data]

\* the requests of a call made for search n; what the call prints goes to
\* a console the window never reads
Tagged(entries, n) ==
  LET requests == SelectSeq(entries, LAMBDA e : e.kind = "request")
  IN [i \in 1..Len(requests) |-> [requests[i] EXCEPT !.by = n]]

\* weather_export.py lines 163-186
ValidateExportData(weather_data, coordinates) ==
  /\ weather_data # <<>>
  /\ "daily" \in DOMAIN weather_data
  /\ weather_data["daily"] # <<>>
  /\ coordinates # <<>>
  /\ "name" \in DOMAIN coordinates

GuiInit ==
  /\ api_key \in BOOLEAN
  /\ log = <<>>
  /\ file = NoFile
  /\ today = 1
  /\ last = NoCall
  /\ save = NoSave
  /\ writers = NoWriters
  /\ gui = NoGui
  /\ threads = {}
  /\ queue = <<>>

\* lines 345-368: a city of the list is selected; only a later submit reads
\* the selection
OnCityListSelect ==
  /\ gui.searches < MaxSearches
  /\ \E city \in Cities :
       /\ gui.selected_city_data # city
       /\ gui' = [gui EXCEPT !.selected_city_data = city]
  /\ UNCHANGED <<file, today, last, save, writers, fetchVars, threads, queue>>

\* lines 370-414: on_submit_click.  Without a selection it warns and
\* returns; otherwise it disables both buttons and starts the thread
OnSubmit ==
  /\ gui.searches < MaxSearches
  /\ IF gui.selected_city_data = ""
     THEN UNCHANGED <<gui, threads>>
     ELSE /\ gui' = [gui EXCEPT !.submit_button = "disabled",
                                !.export_button = "disabled",
                                !.searches = @ + 1]
          /\ threads' = threads \cup
               {[kind |-> "fetch_coordinates", search |-> gui.searches + 1,
                 city |-> gui.selected_city_data, coordinates |-> <<>>]}
  /\ UNCHANGED <<file, today, last, save, writers, fetchVars, queue>>

\* line 120: the submit button is clicked; a disabled button ignores clicks
OnSubmitClick ==
  /\ gui.submit_button = "normal"
  /\ OnSubmit

\* line 189: the Return key calls on_submit_click whatever the state of the
\* button; here, the key pressed while the button is disabled
OnReturnKey ==
  /\ gui.submit_button = "disabled"
  /\ OnSubmit

\* variant of FetchCoordinatesBody that calls again after a call without result
FetchCoordinatesBodyRetrying(t, key, reply) ==
  LET r == GetCityCoordinates(key, t.city, reply)
  IN [log |-> Tagged(r.log \o (IF r.result = <<>> THEN r.log ELSE <<>>), t.search),
      callbacks |->
        <<IF r.raised
          THEN Callback("display_error", t.search, <<>>, <<>>)
          ELSE Callback("display_coordinates_result", t.search, r.result, <<>>),
          Callback("enable_submit", t.search, <<>>, <<>>)>>]

\* variant of FetchCoordinatesBody that re-enables the button in the try
\* block, not in a finally clause
FetchCoordinatesBodyNoFinally(t, key, reply) ==
  LET r == GetCityCoordinates(key, t.city, reply)
  IN [log |-> Tagged(r.log, t.search),
      callbacks |->
        IF r.raised
        THEN <<Callback("display_error", t.search, <<>>, <<>>)>>
        ELSE <<Callback("display_coordinates_result", t.search, r.result, <<>>),
               Callback("enable_submit", t.search, <<>>, <<>>)>>]

\* lines 396-409: the body of the geocoding thread: one call, then the
\* result or the error handed to the UI thread, then the re-enabling
FetchCoordinatesBody(t, key, reply) ==
  LET r == GetCityCoordinates(key, t.city, reply)
  IN [log |-> Tagged(r.log, t.search),
      callbacks |->
        <<IF r.raised
          THEN Callback("display_error", t.search, <<>>, <<>>)
          ELSE Callback("display_coordinates_result", t.search, r.result, <<>>),
          Callback("enable_submit", t.search, <<>>, <<>>)>>]

\* the output of concurrent threads has no order of its own: the log keeps
\* the entries of one search together, searches in the order they started
BySearch(entries, more) ==
  IF more = <<>> THEN entries
  ELSE SelectSeq(entries, LAMBDA e : e.by <= more[1].by) \o more \o
       SelectSeq(entries, LAMBDA e : e.by > more[1].by)

FetchCoordinatesThread ==
  /\ \E t \in threads, reply \in GeoReplies :
       /\ t.kind = "fetch_coordinates"
       /\ LET b == FetchCoordinatesBody(t, api_key, reply)
          IN /\ log' = BySearch(log, b.log)
             /\ queue' = queue \o b.callbacks
             /\ threads' = threads \ {t}
  /\ UNCHANGED <<file, today, last, save, writers, api_key, gui>>

\* variant of FetchWeatherBody that exports from the thread
FetchWeatherBodyExporting(f, t, key, reply, now) ==
  LET r == GetWeatherData(key, t.coordinates.lat, reply, now)
  IN [file |-> ExportResult(f, r.result, t.coordinates, now).file,
      log |-> Tagged(r.log, t.search),
      callbacks |-> <<Callback("display_weather_result", t.search, t.coordinates,
                               r.result)>>]

\* lines 654-666: the body of the weather thread: one call, then the result
\* handed to the UI thread; the thread does nothing to the file f
FetchWeatherBody(f, t, key, reply, now) ==
  LET r == GetWeatherData(key, t.coordinates.lat, reply, now)
  IN [file |-> f,
      log |-> Tagged(r.log, t.search),
      callbacks |->
        <<IF r.raised
          THEN Callback("display_error", t.search, <<>>, <<>>)
          ELSE Callback("display_weather_result", t.search, t.coordinates,
                        r.result)>>]

FetchWeatherThread ==
  /\ \E t \in threads, reply \in WeatherReplies :
       /\ t.kind = "fetch_weather"
       /\ LET b == FetchWeatherBody(file, t, api_key, reply, today)
          IN /\ file' = b.file
             /\ log' = BySearch(log, b.log)
             /\ queue' = queue \o b.callbacks
             /\ threads' = threads \ {t}
  /\ UNCHANGED <<today, last, save, writers, api_key, gui>>

\* lines 650-675: with coordinates the weather thread is started, without
\* them an error box is shown
DisplayCoordinatesResult ==
  /\ queue # <<>>
  /\ Head(queue).fn = "display_coordinates_result"
  /\ queue' = Tail(queue)
  /\ threads' = IF Head(queue).coordinates # <<>>
                THEN threads \cup
                       {[kind |-> "fetch_weather", search |-> Head(queue).search,
                         city |-> Head(queue).coordinates.name,
                         coordinates |-> Head(queue).coordinates]}
                ELSE threads
  /\ UNCHANGED <<file, today, last, save, writers, fetchVars, gui>>

\* lines 677-687
DisplayError ==
  /\ queue # <<>>
  /\ Head(queue).fn = "display_error"
  /\ queue' = Tail(queue)
  /\ gui' = [gui EXCEPT !.current_weather_data = <<>>,
                        !.current_coordinates = <<>>,
                        !.export_button = "disabled",
                        !.shown = 0]
  /\ UNCHANGED <<file, today, last, save, writers, fetchVars, threads>>

\* line 409: self.submit_button.config(state='normal')
EnableSubmit ==
  /\ queue # <<>>
  /\ Head(queue).fn = "enable_submit"
  /\ queue' = Tail(queue)
  /\ gui' = [gui EXCEPT !.submit_button = "normal"]
  /\ UNCHANGED <<file, today, last, save, writers, fetchVars, threads>>

\* variant of ExportButtonAfter that enables the button for every result
ExportButtonAlways(weather_data) == "normal"

\* lines 706-710: the export button after a weather result is displayed
ExportButtonAfter(weather_data) ==
  IF "daily" \in DOMAIN weather_data /\ weather_data["daily"] # <<>>
  THEN "normal" ELSE "disabled"

\* lines 689-716: a result with a 'current' block is stored and shown,
\* anything else gives an error box
DisplayWeatherResult ==
  /\ queue # <<>>
  /\ Head(queue).fn = "display_weather_result"
  /\ queue' = Tail(queue)
  /\ LET weather_data == Head(queue).weather_data
     IN gui' = IF weather_data # <<>> /\ "current" \in DOMAIN weather_data
               THEN [gui EXCEPT !.current_weather_data = weather_data,
                                !.current_coordinates = Head(queue).coordinates,
                                !.export_button = ExportButtonAfter(weather_data),
                                !.shown = Head(queue).search,
                                !.latest = IF Head(queue).search > @
                                           THEN Head(queue).search ELSE @]
               ELSE gui
  /\ UNCHANGED <<file, today, last, save, writers, fetchVars, threads>>

\* lines 424-434: the export button is clicked; a disabled button ignores
\* clicks
OnExportClick ==
  /\ gui.export_button = "normal"
  /\ gui.exports < MaxExports
  /\ IF ValidateExportData(gui.current_weather_data, gui.current_coordinates)
     THEN /\ ExportCall(gui.current_weather_data, gui.current_coordinates)
          /\ gui' = [gui EXCEPT !.exports = @ + 1]
          /\ UNCHANGED <<threads, queue>>
     ELSE UNCHANGED vars

GuiNext ==
  \/ OnCityListSelect
  \/ OnSubmitClick
  \/ OnReturnKey
  \/ FetchCoordinatesThread
  \/ FetchWeatherThread
  \/ DisplayCoordinatesResult
  \/ DisplayError
  \/ EnableSubmit
  \/ DisplayWeatherResult
  \/ OnExportClick
  \/ NextDay

SpecGui == GuiInit /\ [][GuiNext]_vars

\* a started thread runs and its call returns; the main loop runs every
\* callback queued with after()
GuiFairness ==
  /\ WF_vars(FetchCoordinatesThread)
  /\ WF_vars(FetchWeatherThread)
  /\ WF_vars(DisplayCoordinatesResult)
  /\ WF_vars(DisplayError)
  /\ WF_vars(EnableSubmit)
  /\ WF_vars(DisplayWeatherResult)

\* the searches alone: the window on one day, without exports
SearchNext ==
  \/ OnCityListSelect
  \/ OnSubmitClick
  \/ OnReturnKey
  \/ FetchCoordinatesThread
  \/ FetchWeatherThread
  \/ DisplayCoordinatesResult
  \/ DisplayError
  \/ EnableSubmit
  \/ DisplayWeatherResult

SpecSearch == GuiInit /\ [][SearchNext]_vars /\ GuiFairness

(***************************************************************************)
(* Vocabulary of the properties.  A stored row is read through the header  *)
(* of the file that holds it.                                              *)
(***************************************************************************)
\* the text of column col of a data row, "" when the row has no such cell
CellOf(header, cells, col) ==
  IF \E j \in 1..Len(header) : header[j] = col /\ j <= Len(cells)
  THEN cells[CHOOSE j \in 1..Len(header) : header[j] = col]
  ELSE ""

KeyOf(header, cells) ==
  <<CellOf(header, cells, "city"), CellOf(header, cells, "state"),
    CellOf(header, cells, "weather_date")>>

Measurements(header, cells) ==
  <<CellOf(header, cells, "temp"), CellOf(header, cells, "humidity"),
    CellOf(header, cells, "rain"), CellOf(header, cells, "summary")>>

HasPredictedFalse(header, cells) == Lower(CellOf(header, cells, "predicted")) = "false"

HasPredictedTrue(header, cells) == Lower(CellOf(header, cells, "predicted")) = "true"

\* a legacy row: no 'predicted' column in the file, or an empty field
HasNoPredicted(header, cells) == CellOf(header, cells, "predicted") = ""

\* an actual row in the sense of the specification, legacy rows included
CountsAsActual(header, cells) ==
  HasPredictedFalse(header, cells) \/ HasNoPredicted(header, cells)

FileKeys(f) == {KeyOf(f.header, f.rows[i]) : i \in 1..Len(f.rows)}

RowsWithKey(f, k) == SelectSeq(f.rows, LAMBDA cells : KeyOf(f.header, cells) = k)

\* the file the last call found, and whether that call was an export that
\* reached its success message
Before == last.before

Exported == last.op = "export" /\ last.outcome = "ok"

Daily == IF "daily" \in DOMAIN last.weather_data THEN last.weather_data["daily"] ELSE <<>>

\* the rows of the last batch, as text: one per daily entry, in order
Incoming ==
  [i \in 1..Len(Daily) |->
     WriteRow(BuildRow(Daily[i], Get(last.coordinates, "name", "Unknown"),
                       Get(last.coordinates, "state", ""), last.now))]

IncomingKeys == {KeyOf(fieldnames, Incoming[i]) : i \in 1..Len(Incoming)}

IncomingWithKey(k) == SelectSeq(Incoming, LAMBDA cells : KeyOf(fieldnames, cells) = k)

(***************************************************************************)
(* Properties of the reconciliation.                                       *)
(***************************************************************************)
\* C1 (actual-wins): after an export, every row the file held with
\* predicted=false whose key also occurs in the batch is still in the file
\* with all its field values unchanged.
ActualWins ==
  Exported =>
    \A i \in 1..Len(Before.rows) :
      (/\ HasPredictedFalse(Before.header, Before.rows[i])
       /\ KeyOf(Before.header, Before.rows[i]) \in IncomingKeys)
      => \E j \in 1..Len(file.rows) : file.rows[j] = Before.rows[i]

\* C2 (irreversible forecast-to-observation transition): in every step, a
\* key that has a predicted=false row in the file still has a predicted=false
\* row with the same temp, humidity, rain and summary afterwards.
ActualNeverLost ==
  [][\A i \in 1..Len(file.rows) :
       HasPredictedFalse(file.header, file.rows[i]) =>
         \E j \in 1..Len(file'.rows) :
           /\ KeyOf(file'.header, file'.rows[j]) = KeyOf(file.header, file.rows[i])
           /\ HasPredictedFalse(file'.header, file'.rows[j])
           /\ Measurements(file'.header, file'.rows[j])
                = Measurements(file.header, file.rows[i])]_vars

\* C3 (key uniqueness): after an export no two rows of the file share the
\* same (city, state, weather_date).
KeyUniqueness ==
  Exported =>
    \A i, j \in 1..Len(file.rows) :
      KeyOf(file.header, file.rows[i]) = KeyOf(file.header, file.rows[j]) => i = j

\* C4 (idempotence): when an export is followed, on the same day, by an
\* export of the same batch for the same location, the second export leaves
\* the record set of the file as the first one made it.
Idempotence ==
  [][(/\ Exported
      /\ last'.op = "export" /\ last'.outcome = "ok"
      /\ last'.weather_data = last.weather_data
      /\ last'.coordinates = last.coordinates
      /\ last'.now = last.now)
     => /\ file'.header = file.header
        /\ Range(file'.rows) = Range(file.rows)]_vars

\* C5 (predicted-replaced): when the file held a predicted=true row and no
\* actual row for a key of the batch, then after the export the rows of the
\* file with that key are exactly the incoming rows with that key.
PredictedOnly(k) ==
  /\ \E i \in 1..Len(Before.rows) :
       /\ KeyOf(Before.header, Before.rows[i]) = k
       /\ HasPredictedTrue(Before.header, Before.rows[i])
  /\ \A i \in 1..Len(Before.rows) :
       KeyOf(Before.header, Before.rows[i]) = k
         => ~CountsAsActual(Before.header, Before.rows[i])

PredictedReplaced ==
  Exported =>
    \A k \in IncomingKeys :
      PredictedOnly(k) => RowsWithKey(file, k) = IncomingWithKey(k)

\* an export replaced a predicted row by an incoming row that differs from it
PredictedReplacedCase ==
  /\ Exported
  /\ \E k \in IncomingKeys :
       /\ PredictedOnly(k)
       /\ \E i \in 1..Len(Before.rows) :
            /\ KeyOf(Before.header, Before.rows[i]) = k
            /\ Before.rows[i] \notin Range(Incoming)

\* C6 (no row lost): after an export the keys of the file are the keys it
\* had before together with the keys of the batch.
KeysPreserved ==
  Exported => FileKeys(file) = FileKeys(Before) \cup IncomingKeys

\* C7 (incoming suppression): after an export the file ends with exactly the
\* incoming rows whose key had no existing actual row, in batch order, and
\* every row ahead of them was in the file before; so no incoming row whose
\* key had an existing actual row is written.  A row without 'predicted'
\* value counts as actual here.
ActualKeysBefore ==
  {KeyOf(Before.header, Before.rows[i]) :
     i \in {j \in 1..Len(Before.rows) : CountsAsActual(Before.header, Before.rows[j])}}

Unsuppressed ==
  SelectSeq(Incoming, LAMBDA cells : KeyOf(fieldnames, cells) \notin ActualKeysBefore)

CameFromBefore(cells) ==
  \E i \in 1..Len(Before.rows) :
    \A c \in Range(Before.header) :
      CellOf(fieldnames, cells, c) = CellOf(Before.header, Before.rows[i], c)

IncomingSuppression ==
  Exported =>
    LET n == Len(Unsuppressed)
        m == Len(file.rows)
    IN /\ m >= n
       /\ SubSeq(file.rows, m - n + 1, m) = Unsuppressed
       /\ \A j \in 1..(m - n) : CameFromBefore(file.rows[j])

\* an export of a batch of which one row was suppressed and another written
IncomingSuppressionCase ==
  /\ Exported
  /\ Len(Unsuppressed) >= 1
  /\ Len(Unsuppressed) < Len(Incoming)

\* C8 (empty batch, round trip): an export of an empty batch onto a file
\* that has the fixed header succeeds and leaves the header and the rows
\* (each with the same cells, counted with multiplicity) as they were.
Count(rows, r) == Cardinality({i \in 1..Len(rows) : rows[i] = r})

EmptyBatchOntoSavedFile ==
  /\ last.op = "export"
  /\ "daily" \in DOMAIN last.weather_data
  /\ Daily = <<>>
  /\ Before.exists
  /\ Before.header = fieldnames

RoundTrip ==
  EmptyBatchOntoSavedFile =>
    /\ last.outcome = "ok"
    /\ file.exists
    /\ file.header = Before.header
    /\ \A r \in Range(file.rows) \cup Range(Before.rows) :
         Count(file.rows, r) = Count(Before.rows, r)

\* an empty batch was exported onto a saved file with several rows, one of
\* them predicted
RoundTripCase ==
  /\ EmptyBatchOntoSavedFile
  /\ Len(Before.rows) >= 2
  /\ \E i \in 1..Len(Before.rows) : HasPredictedTrue(Before.header, Before.rows[i])

\* C9 (legacy rows).  A row without 'predicted' value whose key is in the
\* batch suppresses the incoming rows of that key, as a predicted=false row
\* does; one whose key is not in the batch is kept.
WithPredicted(header, cells, p) ==
  [c \in 1..Len(fieldnames) |->
     IF fieldnames[c] = "predicted" THEN p ELSE CellOf(header, cells, fieldnames[c])]

LegacyTreatedAsFalse ==
  \A i \in 1..Len(Before.rows) :
    (/\ HasNoPredicted(Before.header, Before.rows[i])
     /\ KeyOf(Before.header, Before.rows[i]) \in IncomingKeys)
    => \A j \in 1..Len(file.rows) :
         KeyOf(file.header, file.rows[j]) = KeyOf(Before.header, Before.rows[i])
           => file.rows[j] \notin Range(Incoming)

\* C9 as claimed: legacy rows are treated as predicted=false, and every kept
\* legacy row is written back with predicted=False.
LegacyWrittenBackFalse ==
  Exported =>
    /\ LegacyTreatedAsFalse
    /\ \A i \in 1..Len(Before.rows) :
         (/\ HasNoPredicted(Before.header, Before.rows[i])
          /\ KeyOf(Before.header, Before.rows[i]) \notin IncomingKeys)
         => \E j \in 1..Len(file.rows) :
              file.rows[j] = WithPredicted(Before.header, Before.rows[i], "False")

\* C9 as amended: legacy rows are treated as predicted=false; a kept legacy
\* row is written back with predicted=False when the file had no
\* 'predicted' column, and with its empty field when the field was empty.
LegacyWrittenBack ==
  Exported =>
    /\ LegacyTreatedAsFalse
    /\ \A i \in 1..Len(Before.rows) :
         (/\ HasNoPredicted(Before.header, Before.rows[i])
          /\ KeyOf(Before.header, Before.rows[i]) \notin IncomingKeys)
         => \E j \in 1..Len(file.rows) :
              file.rows[j] =
                WithPredicted(Before.header, Before.rows[i],
                              IF "predicted" \in Range(Before.header) THEN "" ELSE "False")

\* an export onto a file with an empty 'predicted' field in a row whose key
\* is in the batch and in another row whose key is not
LegacyCase ==
  /\ Exported
  /\ \E i, j \in 1..Len(Before.rows) :
       /\ HasNoPredicted(Before.header, Before.rows[i])
       /\ KeyOf(Before.header, Before.rows[i]) \in IncomingKeys
       /\ HasNoPredicted(Before.header, Before.rows[j])
       /\ KeyOf(Before.header, Before.rows[j]) \notin IncomingKeys

\* C10 (empty store): an export that finds no file, or a file without data
\* rows, leaves exactly the incoming rows, one per daily entry and in batch
\* order, under the fixed header; the chart loads nothing from a missing file.
EmptyStore ==
  /\ (Exported /\ (~Before.exists \/ Before.rows = <<>>))
       => /\ file.exists
          /\ file.header = fieldnames
          /\ Len(file.rows) = Len(Daily)
          /\ file.rows = Incoming
  /\ (last.op = "load" /\ ~Before.exists) => last.loaded = <<>>

\* an export of two entries for distinct dates when no file existed
EmptyStoreCase ==
  /\ Exported
  /\ ~Before.exists
  /\ Len(Daily) = 2
  /\ Cardinality(IncomingKeys) = 2

\* C11 (row order): the rows of the file written by an export split into a
\* front part and a back part; the front part is rows of the file before,
\* in the order they had there, and the back part is rows of the batch, in
\* the order of the daily entries.  So every kept row precedes every new row.
IsStoredRow(cells, i) ==
  \A c \in Range(Before.header) :
    CellOf(fieldnames, cells, c) = CellOf(Before.header, Before.rows[i], c)

Increasing(f) == \A i, j \in DOMAIN f : i < j => f[i] < f[j]

\* rows is made of rows of the file before, in their order there
InOrderOfBefore(rows) ==
  \E f \in [1..Len(rows) -> 1..Len(Before.rows)] :
    /\ Increasing(f)
    /\ \A i \in 1..Len(rows) : IsStoredRow(rows[i], f[i])

\* rows is made of rows of the batch, in the order of the daily entries
InOrderOfBatch(rows) ==
  \E f \in [1..Len(rows) -> 1..Len(Incoming)] :
    /\ Increasing(f)
    /\ \A i \in 1..Len(rows) : rows[i] = Incoming[f[i]]

RowOrder ==
  Exported =>
    \E k \in 0..Len(file.rows) :
      /\ InOrderOfBefore(SubSeq(file.rows, 1, k))
      /\ InOrderOfBatch(SubSeq(file.rows, k + 1, Len(file.rows)))

\* an export that kept a row and added two different rows after it
RowOrderCase ==
  /\ Exported
  /\ Len(file.rows) = 3
  /\ IsStoredRow(file.rows[1], 1)
  /\ file.rows[1] \notin Range(Incoming)
  /\ file.rows[2] # file.rows[3]
  /\ <<file.rows[2], file.rows[3]>> = Incoming

\* C12 (atomic save): a reader that loads while a save is between its
\* open() and its close gets the rows of the complete file before or the
\* rows of the complete file the save is writing, and a save that fails
\* after its open() leaves the rows of the file before on disk.
AtomicSave ==
  /\ (save.pc # "idle" /\ last.op = "load")
       => \/ last.loaded = LoadWeatherData(save.call.before, last.coordinates.name,
                                           last.coordinates.state)
          \/ last.loaded = LoadWeatherData(
                             ExportResult(save.call.before, save.call.weather_data,
                                          save.call.coordinates, save.call.now).file,
                             last.coordinates.name, last.coordinates.state)
  /\ (save.pc = "idle" /\ last.op = "export" /\ last.outcome = "error")
       => /\ file.exists = Before.exists
          /\ DictReader(file) = DictReader(Before)

\* C13 (malformed record skipping): after an export of a batch, every entry
\* of the batch that can be converted has its row in the file unless an
\* actual row of its key suppressed it, and every existing row with all its
\* fields whose key is not in the batch is still in the file, whatever the
\* other entries of the batch and the other rows of the file are.
Converted ==
  SelectSeq(Daily, LAMBDA day_data : ~BuildRaises(day_data))

ConvertedRows ==
  [i \in 1..Len(Converted) |->
     WriteRow(BuildRow(Converted[i], Get(last.coordinates, "name", "Unknown"),
                       Get(last.coordinates, "state", ""), last.now))]

WholeRow(cells) == Len(cells) = Len(Before.header) /\ Undecodable \notin Range(cells)

MalformedSkipped ==
  (last.op = "export" /\ Decodes(Before))
    => /\ \A i \in 1..Len(ConvertedRows) :
            KeyOf(fieldnames, ConvertedRows[i]) \notin ActualKeysBefore
              => ConvertedRows[i] \in Range(file.rows)
       /\ \A j \in 1..Len(Before.rows) :
            (/\ WholeRow(Before.rows[j])
             /\ KeyOf(Before.header, Before.rows[j]) \notin
                  {KeyOf(fieldnames, ConvertedRows[i]) : i \in 1..Len(ConvertedRows)})
            => \E k \in 1..Len(file.rows) : IsStoredRow(file.rows[k], j)

\* C14 (read failure starts fresh): an export of a response with daily data
\* that finds a file it cannot read goes on as if there were no existing
\* rows; unless an entry of the batch cannot be converted it succeeds, and
\* the file it writes holds the fixed header and exactly the incoming rows,
\* none of the rows from before.
ReadFailed ==
  /\ last.op = "export"
  /\ "daily" \in DOMAIN last.weather_data
  /\ Before.exists
  /\ ~Decodes(Before)

ReadFailureStartsFresh ==
  ReadFailed =>
    /\ (\A i \in 1..Len(Daily) : ~BuildRaises(Daily[i])) => last.outcome = "ok"
    /\ last.outcome = "ok" => /\ file.exists
                              /\ file.header = fieldnames
                              /\ file.rows = Incoming

\* an export of a batch onto a file that cannot be read and that held a
\* readable row of a key outside the batch
ReadFailureCase ==
  /\ ReadFailed
  /\ last.outcome = "ok"
  /\ Len(Daily) >= 1
  /\ \E j \in 1..Len(Before.rows) :
       /\ WholeRow(Before.rows[j])
       /\ KeyOf(Before.header, Before.rows[j]) \notin IncomingKeys

\* C15 (missing credential): without OPENWEATHERMAP_KEY1 in the environment
\* no HTTP request is ever issued, and every call of get_city_coordinates,
\* get_weather_data and get_historical_weather_data prints the error line
\* and returns None.
FetchOps == {"get_city_coordinates", "get_weather_data", "get_historical_weather_data"}

MissingCredential ==
  ~api_key =>
    /\ \A i \in 1..Len(log) : log[i] = Said(KeyMissing)
    /\ last.op \in FetchOps =>
         /\ last.outcome = "None"
         /\ log # <<>>

\* without the credential, get_weather_data was called after another fetch
\* function had been called
MissingCredentialCase ==
  /\ ~api_key
  /\ last.op = "get_weather_data"
  /\ Len(log) >= 2

\* C16 (no automatic retries): every HTTP request in the log was issued for
\* a search that a submit started; for one search there is at most one
\* geocoding request and at most one weather request, whatever the answers
\* were, and a weather request only after a geocoding request.
RequestsFor(api, n) ==
  {i \in 1..Len(log) : log[i].kind = "request" /\ log[i].api = api /\ log[i].by = n}

NoRetries ==
  /\ \A i \in 1..Len(log) : log[i].kind = "request" => log[i].by \in 1..gui.searches
  /\ \A n \in 1..gui.searches :
       /\ Cardinality(RequestsFor("geo", n)) <= 1
       /\ Cardinality(RequestsFor("onecall", n)) <= Cardinality(RequestsFor("geo", n))

\* the one geocoding request of the first search gave no coordinates, a
\* second search made both its requests, and nothing is running or queued
NoRetriesCase ==
  /\ threads = {}
  /\ queue = <<>>
  /\ gui.searches = 2
  /\ Cardinality(RequestsFor("geo", 1)) = 1
  /\ RequestsFor("onecall", 1) = {}
  /\ Cardinality(RequestsFor("geo", 2)) = 1
  /\ Cardinality(RequestsFor("onecall", 2)) = 1

\* C17 (single writer inside the window's process): every step that changes
\* weather_export.csv is a step of the export-button handler on the UI
\* thread; no step of a background fetch thread changes the file.  The
\* handlers of the UI thread run one at a time, so one read-modify-write of
\* the file is in progress at most.
OnlyUiThreadExports == [][file' # file => OnExportClick]_vars

\* the export button's handler has written the file while a background
\* fetch thread of a later search was alive
OnlyUiThreadExportsCase ==
  /\ Exported
  /\ file.exists
  /\ threads # {}

\* C18 (predicted flag): every row an export adds to the file has
\* predicted=True exactly when its weather_date is later than the day the
\* exported weather data was fetched on (the day of its 'current' block),
\* and predicted=False otherwise.
FetchDay == FromTimestamp(last.weather_data["current"]["dt"])

PredictedRelativeToFetch ==
  Exported =>
    \A j \in 1..Len(file.rows) :
      file.rows[j] \in Range(Incoming)
        => (CellOf(fieldnames, file.rows[j], "predicted") =
              (IF StrpDate(CellOf(fieldnames, file.rows[j], "weather_date")) > FetchDay
               THEN "True" ELSE "False"))

\* C20 (export button disabled during a search): while a search is between
\* the submit that started it and the display of its result or error, that
\* is while one of its threads is alive or one of its display callbacks is
\* queued, the export button is disabled.
SearchInProgress(n) ==
  \/ \E t \in threads : t.search = n
  \/ \E i \in 1..Len(queue) : queue[i].search = n /\ queue[i].fn # "enable_submit"

ExportDisabledDuringSearch ==
  (\E n \in 1..gui.searches : SearchInProgress(n)) => gui.export_button = "disabled"

\* C19 (case-sensitive keys in the store, case-insensitive chart): after an
\* export, an existing row whose key differs from the key of an incoming
\* row in letter case only, and equals no incoming key, is still in the
\* file, and so is that incoming row unless an actual row of exactly its
\* key was in the file; a chart load returns the rows of every spelling of
\* the city and state it is asked for.
SameButCase(k1, k2) ==
  /\ k1 # k2
  /\ k1[3] = k2[3]
  /\ {k1[1], k2[1]} \subseteq CaseNames
  /\ {k1[2], k2[2]} \subseteq CaseNames

CaseSensitiveKeys ==
  /\ Exported =>
       \A i \in 1..Len(Before.rows), j \in 1..Len(Incoming) :
         (/\ SameButCase(KeyOf(Before.header, Before.rows[i]),
                         KeyOf(fieldnames, Incoming[j]))
          /\ KeyOf(Before.header, Before.rows[i]) \notin IncomingKeys)
         => /\ \E k \in 1..Len(file.rows) : IsStoredRow(file.rows[k], i)
            /\ KeyOf(fieldnames, Incoming[j]) \notin ActualKeysBefore
                 => Incoming[j] \in Range(file.rows)
  /\ last.op = "load" =>
       last.loaded =
         SelectSeq(DictReader(Before), LAMBDA row :
           /\ row["city"].s \in CaseNames
           /\ row["state"].s \in CaseNames)

\* the chart loaded two rows of one date whose cities differ in letter case
\* only, which an export had left side by side
CaseSensitiveKeysCase ==
  /\ last.op = "load"
  /\ \E i, j \in 1..Len(last.loaded) :
       /\ last.loaded[i]["city"] # last.loaded[j]["city"]
       /\ last.loaded[i]["weather_date"] = last.loaded[j]["weather_date"]

\* nothing is running and nothing is queued
Quiescent == threads = {} /\ queue = <<>>

\* C21 (latest search wins): once every background fetch has completed and
\* every callback has run, the stored weather data and coordinates are those
\* of the most recently submitted search whose weather result was stored.
LatestSearchWins ==
  (Quiescent /\ gui.current_weather_data # <<>>) => gui.shown = gui.latest

\* search n has a fetch running or about to be started
InFlight(n) ==
  \/ \E t \in threads : t.search = n
  \/ \E i \in 1..Len(queue) :
       /\ queue[i].search = n
       /\ queue[i].fn = "display_coordinates_result"
       /\ queue[i].coordinates # <<>>

\* C22 (submit button prevents multiple requests): a click on the submit
\* button starts a search only when no earlier search is in flight, a
\* search being in flight from its geocoding request until its weather
\* request has returned.
OneSearchInFlight ==
  [][(OnSubmitClick /\ gui'.searches # gui.searches)
       => ~ \E n \in 1..gui.searches : InFlight(n)]_vars

\* C23 (export button and stored data): whenever the export button is
\* enabled, validate_export_data accepts the stored weather data and
\* coordinates.
ExportEnabledValid ==
  gui.export_button = "normal"
    => ValidateExportData(gui.current_weather_data, gui.current_coordinates)

\* the export button is enabled on the result of the second search, after a
\* result without daily data had left it disabled
ExportEnabledValidCase ==
  /\ gui.export_button = "normal"
  /\ gui.shown = 2
  /\ gui.latest = 2
  /\ \E i \in 1..Len(log) : log[i].api = "onecall" /\ log[i].by = 1

\* C24 (stored data and coordinates go together): the stored weather data
\* and the stored coordinates are both None or both set, and when set the
\* weather data was fetched for the stored coordinates.
StoredTogether ==
  /\ gui.current_weather_data = <<>> <=> gui.current_coordinates = <<>>
  /\ gui.current_weather_data # <<>>
       => gui.current_weather_data["lat"] = gui.current_coordinates["lat"]

\* an error cleared what an earlier search had stored
StoredTogetherCase ==
  /\ gui.latest > 0
  /\ gui.current_weather_data = <<>>
  /\ gui.current_coordinates = <<>>

\* the callback that re-enables the submit button stands in the queue right
\* behind the result or error callback of its geocoding fetch, until that
\* one has run
EnableQueuedAfterResult ==
  \A i \in 1..Len(queue) :
    /\ queue[i].fn = "enable_submit" /\ i > 1
         => /\ queue[i - 1].search = queue[i].search
            /\ queue[i - 1].fn \in {"display_coordinates_result", "display_error"}
    /\ (queue[i].fn = "display_coordinates_result"
        \/ (queue[i].fn = "display_error"
            /\ \A t \in threads : ~(t.search = queue[i].search /\ t.kind = "fetch_weather")))
         => /\ i < Len(queue)
            /\ queue[i + 1] = Callback("enable_submit", queue[i].search, <<>>, <<>>)

\* C25 (submit is always re-enabled): the callback that re-enables the
\* submit button is queued right after the result or error callback of the
\* geocoding fetch, and whenever the submit button is disabled it is
\* eventually enabled again, given that started threads run, their calls
\* return and the main loop runs the queued callbacks.
SubmitReenabled ==
  /\ []EnableQueuedAfterResult
  /\ (gui.submit_button = "disabled") ~> (gui.submit_button = "normal")

\* the button is enabled again after a second search whose geocoding call
\* raised, with nothing left running or queued
SubmitReenabledCase ==
  /\ Quiescent
  /\ gui.submit_button = "normal"
  /\ gui.searches = 2
  /\ gui.shown = 0
  /\ gui.latest = 1
  /\ Cardinality(RequestsFor("geo", 2)) = 1
  /\ RequestsFor("onecall", 2) = {}

(***************************************************************************)
(* Properties of the seeding.                                              *)
(***************************************************************************)
\* the last call was a seeding run that reached its success message
Seeded == last.op = "seed" /\ last.outcome = "ok"

\* how many days ago the days lie whose fetch gave data, most recent first
SeededDaysAgo ==
  SelectSeq([i \in 1..SeedDays |-> i], LAMBDA i : last.weather_data[i] = "data")

\* the row of the day i days ago, as text
SeededCells(i) ==
  <<StrfDate(last.now - i), StrfDate(last.now), "New York", "New York", "38.0",
    "0", "0", "", "False">>

SeededRows == [k \in 1..Len(SeededDaysAgo) |-> SeededCells(SeededDaysAgo[k])]

SeededKeys == {KeyOf(fieldnames, SeededRows[k]) : k \in 1..Len(SeededRows)}

\* the places in the file before of the rows whose key was not seeded
Unseeded ==
  SelectSeq([i \in 1..Len(Before.rows) |-> i],
            LAMBDA i : KeyOf(Before.header, Before.rows[i]) \notin SeededKeys)

\* C26 (seeding replaces unconditionally): after a seeding run the file
\* holds, in this order, the rows it held before whose key is not a seeded
\* key, with their field values and in their order, and then one row with
\* predicted=False for every seeded day; so every row of a seeded key is
\* gone, whatever its predicted flag.
SeedingReplaces ==
  Seeded =>
    /\ file.header = fieldnames
    /\ Len(file.rows) = Len(Unseeded) + Len(SeededRows)
    /\ \A k \in 1..Len(Unseeded) : IsStoredRow(file.rows[k], Unseeded[k])
    /\ \A k \in 1..Len(SeededRows) : file.rows[Len(Unseeded) + k] = SeededRows[k]

\* a run replaced an actual row of a seeded key and kept a row of another
\* key in front of the seeded rows
SeedingReplacesCase ==
  /\ Seeded
  /\ \E i \in 1..Len(Before.rows) :
       /\ HasPredictedFalse(Before.header, Before.rows[i])
       /\ KeyOf(Before.header, Before.rows[i]) \in SeededKeys
  /\ Unseeded # <<>>

\* the geocoding of the last seeding run gave coordinates
SeedGeocoded == last.op = "seed" /\ api_key /\ last.coordinates = "found"

\* C27 (seeding with failed fetches): when the geocoding gave coordinates,
\* every one of the seven days is requested; a day whose fetch failed or
\* gave no data has no seeded row in the file and every other day has one;
\* when the geocoding failed or no day gave data, the run ends before the
\* file is read and the file is as it was.
SeedingSkipsFailedDays ==
  /\ SeedGeocoded =>
       Cardinality({i \in 1..Len(log) : log[i] = Requested("timemachine", "407")})
         = SeedDays
  /\ Seeded =>
       \A i \in 1..SeedDays :
         (\E k \in 1..Len(file.rows) :
            /\ file.rows[k] = SeededCells(i)
            /\ k > Len(Unseeded))
         <=> last.weather_data[i] = "data"
  /\ (last.op = "seed" /\ (~SeedGeocoded \/ SeededDaysAgo = <<>>)) =>
       /\ last.outcome \in {"raised", "nocoordinates", "nodata"}
       /\ file = Before

\* yesterday's fetch failed and the six days before it were written
SeedingSkipsFailedDaysCase ==
  /\ Seeded
  /\ last.weather_data[1] = "failed"
  /\ Len(SeededRows) = SeedDays - 1
  /\ Before.exists

\* the last export had nothing to export, or met an entry it cannot convert
\* or, in a file it could read, a row that ends before its 'predicted' cell
NothingToExport ==
  last.weather_data = <<>> \/ "daily" \notin DOMAIN last.weather_data

EntryFails == \E i \in 1..Len(Daily) : BuildRaises(Daily[i])

RowFails ==
  /\ Before.exists
  /\ Decodes(Before)
  /\ \E i \in 1..Len(Before.rows), j \in 1..Len(Before.header) :
       /\ Before.header[j] = "predicted"
       /\ Before.rows[i] # <<>>
       /\ Len(Before.rows[i]) < j

\* C28 (state unchanged on early failure): an export that has no daily data
\* to export, or that raises while it builds the incoming rows or filters
\* the existing rows, reports an error and leaves the file as it was.
UnchangedOnEarlyFailure ==
  (last.op = "export" /\ (NothingToExport \/ EntryFails \/ RowFails))
    => /\ last.outcome \in {"nodata", "error"}
       /\ file = Before

\* an export of entries that can all be converted failed on a short row of
\* the file, which is as it was
UnchangedOnEarlyFailureCase ==
  /\ last.op = "export"
  /\ ~NothingToExport
  /\ Daily # <<>>
  /\ ~EntryFails
  /\ RowFails
  /\ file = Before

\* the rows the seeding run and the export of the window bring, as they
\* appear in a file; the export brings no row for a key it read an actual
\* row of
SeedBrought ==
  {WriteRow(writers.seed.csv_data[i]) : i \in 1..Len(writers.seed.csv_data)}

ExportBuilt ==
  LET daily == writers.export.weather_data["daily"]
  IN {WriteRow(BuildRow(daily[i], writers.export.coordinates["name"],
                        writers.export.coordinates["state"], today)) :
        i \in 1..Len(daily)}

ExportBrought ==
  {cells \in ExportBuilt :
     ~ \E i \in 1..Len(writers.export.seen.rows) :
         /\ KeyOf(fieldnames, writers.export.seen.rows[i]) = KeyOf(fieldnames, cells)
         /\ Lower(writers.export.seen.rows[i][9]) \in {"false", ""}}

KeysOf(rows) == {KeyOf(fieldnames, cells) : cells \in rows}

BothWrote == Len(writers.order) = 4

BothReadFirst ==
  /\ BothWrote
  /\ {writers.order[1], writers.order[2]} = {"seed read", "export read"}

OneAfterTheOther ==
  /\ BothWrote
  /\ writers.order[2] \in {"seed write", "export write"}

\* the rows brought by the one that wrote first, and by the other
BroughtFirst == IF writers.order[3] = "seed write" THEN SeedBrought ELSE ExportBrought

BroughtSecond == IF writers.order[3] = "seed write" THEN ExportBrought ELSE SeedBrought

\* C29 (concurrent writers lose updates): when a seeding run and an export
\* of the window have both read weather_export.csv before either wrote it,
\* the final file holds none of the rows the first writer added; when one
\* read and wrote before the other read, the final file holds the rows of
\* both for the keys only one of them has a row for.
LostUpdate ==
  /\ BothReadFirst => \A cells \in BroughtFirst \ BroughtSecond :
                        cells \notin Range(file.rows)
  /\ OneAfterTheOther =>
       \A cells \in SeedBrought \cup ExportBrought :
         KeyOf(fieldnames, cells) \notin KeysOf(SeedBrought) \cap KeysOf(ExportBuilt)
           => cells \in Range(file.rows)

\* both read a file with rows, the seeding run wrote seven rows and the
\* export, writing second, left none of them and none of their keys
LostUpdateCase ==
  /\ BothReadFirst
  /\ writers.order[3] = "seed write"
  /\ writers.seed.seen.exists
  /\ Cardinality(SeedBrought) = SeedDays
  /\ ExportBrought # {}
  /\ KeysOf(SeedBrought) \cap KeysOf(ExportBuilt) = {}
  /\ SeedBrought \cap Range(file.rows) = {}
  /\ ExportBrought \subseteq Range(file.rows)

\* the export read and wrote, then the seeding run; the file holds the rows
\* of both
OneAfterTheOtherCase ==
  /\ OneAfterTheOther
  /\ writers.order[1] = "export read"
  /\ SeedBrought # {}
  /\ ExportBrought # {}
  /\ KeysOf(SeedBrought) \cap KeysOf(ExportBuilt) = {}
  /\ SeedBrought \cup ExportBrought \subseteq Range(file.rows)

\* the chart was drawn from the file as it is, and the next step is an
\* export
ExportAfterChart ==
  /\ last.op = "chart"
  /\ last.before = file
  /\ last'.op = "export"
  /\ last'.outcome = "ok"

\* row i of the file has a key of the batch being exported
KeyExported(i) ==
  \E j \in 1..Len(last'.weather_data["daily"]) :
    KeyOf(file.header, file.rows[i]) =
      KeyOf(fieldnames,
            WriteRow(BuildRow(last'.weather_data["daily"][j],
                              last'.coordinates["name"],
                              last'.coordinates["state"], last'.now)))

\* the export wrote a row of its own for the key of row i
IncomingWritten(i) ==
  \E j \in 1..Len(file'.rows) :
    /\ KeyOf(fieldnames, file'.rows[j]) = KeyOf(file.header, file.rows[i])
    /\ CellOf(fieldnames, file'.rows[j], "export_date") = StrfDate(last'.now)

\* the chart plotted row i as a forecast (predicted) or as an actual
PlottedAs(i, predicted) ==
  \E k \in 1..Len(last.loaded) :
    /\ StrfDate(last.loaded[k].date) = CellOf(file.header, file.rows[i], "weather_date")
    /\ last.loaded[k].predicted = predicted

\* C30 (consistent classification of stored rows): whatever the 'predicted'
\* text of a stored row, a row the export treats as actual (it writes no
\* row of its own for the key) is one the chart plots as actual, and a row
\* the export replaces is one the chart plots as predicted.
SameClassification ==
  [][ExportAfterChart =>
       \A i \in 1..Len(file.rows) :
         KeyExported(i) =>
           IF IncomingWritten(i) THEN PlottedAs(i, TRUE) ELSE PlottedAs(i, FALSE)]_vars

====
